---- MODULE Spec2Model ----
(***************************************************************************)
(* A model of FarmPluginRuntime (crates/plugin_runtime/src/lib.rs): the    *)
(* hooks resolve, analyze_deps, process_resource_pots,                     *)
(* render_resource_pot_modules and generate_resources, and the two script  *)
(* wrappers the plugin emits.                                              *)
(*                                                                         *)
(* Strings the code inspects by content (ends_with, replace, format!) are  *)
(* sequences of one-character strings; strings it only compares for        *)
(* equality are TLA+ strings.                                              *)
(***************************************************************************)
EXTENDS Integers, Sequences, FiniteSets, TLC

VARIABLES
  pipelineStage,  \* the stage of the pipeline whose hooks are being called
  resolveCall,    \* the last completed call of resolve: its inputs and what it did
  loadCall,       \* the call of load: its input, the file system, what it did
  finalizeCall,   \* the call of finalize_module: its param before and after
  module,         \* the PluginAnalyzeDepsHookParam under analysis (module + deps)
  deps0,          \* the dependency list analyze_deps was first given
  depsHist,       \* the dependency list after each run of analyze_deps
  analyzeRet,     \* what the last run of analyze_deps returned
  pots,           \* the resource pots of the compilation
  runtime_code,   \* FarmPluginRuntime::runtime_code: the cached bootstrap bundle
  mutex,          \* the thread holding runtime_code's Mutex (0: free)
  graphWriter,    \* the thread holding context.module_graph's write lock (0: none)
  graphReaders,   \* the threads holding context.module_graph's read lock
  pc,             \* where each thread stands in the hook it is running
  arg,            \* the argument of the hook each thread is running
  bundle,         \* process_resource_pots' local `bundle` of each thread
  ordered,        \* per thread: the render call began after the pot was processed
  late,           \* per thread: the process call began with the cache filled
  callsLeft,      \* hook calls the pipeline has still to make
  renderLog,      \* calls of resource_pot_to_runtime_object by process_resource_pots
  cacheWrites,    \* assignments to runtime_code so far
  stage,          \* per Runtime pot: 0, 1 once processed, 2 once rendered after that
  potMeta,        \* per pot: resource_pot.meta.rendered_content
  lastReturn,     \* the last value a process/render hook call returned
  generated,      \* the call of generate_resources just made and its result
  js              \* the script engine evaluating a bundle this plugin emitted

resolveVars == <<resolveCall>>
depsVars == <<module, deps0, depsHist, analyzeRet>>
lockVars == <<mutex, graphWriter, graphReaders>>
moduleVars == <<pipelineStage, loadCall, finalizeCall>>
potVars == <<pots, runtime_code, mutex, graphWriter, graphReaders, pc, arg, bundle,
             ordered, late, callsLeft, renderLog, cacheWrites, stage, potMeta,
             lastReturn, generated>>

\* what the resource-pot hooks leave alone
otherVars == <<resolveVars, depsVars, moduleVars, js>>

vars == <<resolveVars, depsVars, moduleVars, potVars, js>>

(***************************************************************************)
(* Bounds of the model.                                                    *)
(***************************************************************************)
MaxPieces == 3        \* a source string is made of at most this many pieces
MaxResolveDepth == 3  \* nesting of resolve calls the stack is given
MaxStmts == 3         \* top-level statements of a module
MaxRuns == 2          \* runs of analyze_deps on one module
NumProcs == 2         \* threads of the pipeline calling the resource-pot hooks
MaxCalls == 3         \* resource-pot hook calls in one compilation
MaxRequires == 2      \* require calls in the body of one module factory
MaxStack == 4         \* nested calls the script engine's stack holds

(***************************************************************************)
(* Option and Result values.                                               *)
(***************************************************************************)
None == [kind |-> "None"]
Some(v) == [kind |-> "Some", value |-> v]
Err(e) == [kind |-> "Err", value |-> e]

\* the value () of Ok(Some(()))
Unit == [unit |-> "()"]

\* panic!: the hook does not return, the thread unwinds with the message
Panic(msg) == [kind |-> "Panic", value |-> msg]

(***************************************************************************)
(* Strings.                                                                *)
(***************************************************************************)
RUNTIME_SUFFIX == <<".", "f", "a", "r", "m", "-", "r", "u", "n", "t", "i", "m", "e">>

\* str::ends_with
EndsWith(s, suf) ==
  /\ Len(s) >= Len(suf)
  /\ SubSeq(s, Len(s) - Len(suf) + 1, Len(s)) = suf

RECURSIVE Replace(_, _, _)
\* str::replace: every non-overlapping match of pat, leftmost first, becomes to
Replace(s, pat, to) ==
  IF Len(s) < Len(pat) THEN s
  ELSE IF SubSeq(s, 1, Len(pat)) = pat
       THEN to \o Replace(SubSeq(s, Len(pat) + 1, Len(s)), pat, to)
       ELSE <<s[1]>> \o Replace(Tail(s), pat, to)

\* the name() of the plugin, and the literal the resolve hook compares with
PluginName == "FarmPluginRuntime"

(***************************************************************************)
(* resolve                                                                 *)
(***************************************************************************)
Pieces == { <<"a">>, <<".", "j", "s">>, <<".", "f", "a", "r", "m">>, RUNTIME_SUFFIX }

RECURSIVE Strings(_)
\* the strings made of at most n pieces
Strings(n) ==
  IF n = 0 THEN { <<>> }
  ELSE Strings(n - 1) \cup { s \o p : s \in Strings(n - 1), p \in Pieces }

Sources == Strings(MaxPieces)

Importers ==
  { None,
    Some(<<"a">> \o <<".", "j", "s">>),
    Some(<<"a">> \o <<".", "j", "s">> \o RUNTIME_SUFFIX),
    Some(<<"a">> \o RUNTIME_SUFFIX \o <<".", "j", "s">>) }

Callers == { None, Some(PluginName), Some("FarmPluginResolve") }

ResolveKinds == { "Import", "Require" }

RootDir == <<"/">>

\* What the other participants of the resolve hook answer for a source: a
\* script path resolves below the root, the empty source is an error, any
\* other source is not resolved.
GenericResolve(param) ==
  IF param.source = <<>> THEN Err("ResolveError")
  ELSE IF EndsWith(param.source, <<".", "j", "s">>)
       THEN Some([resolved_path |-> RootDir \o param.source, external |-> FALSE])
       ELSE None

IsSelfCallerOtherName(caller) == caller = Some("FarmPluginResolve")

\* matches!(&hook_context.caller, Some(c) if c == "FarmPluginRuntime")
IsSelfCaller(caller) == caller = Some(PluginName)

\* the source is a runtime module or its importer is a runtime module
Qualifies(param) ==
  \/ EndsWith(param.source, RUNTIME_SUFFIX)
  \/ /\ param.importer # None
     /\ EndsWith(param.importer.value, RUNTIME_SUFFIX)

\* let ori_source = param.source.replace(RUNTIME_SUFFIX, "")
OriSource(source) == Replace(source, RUNTIME_SUFFIX, <<>>)

AppendSuffixIfSourceHadIt(param, res) ==
  IF EndsWith(param.source, RUNTIME_SUFFIX)
  THEN [res EXCEPT !.resolved_path = @ \o RUNTIME_SUFFIX]
  ELSE res

\* res.resolved_path = format!("{}{}", res.resolved_path, RUNTIME_SUFFIX)
AppendSuffix(param, res) == [res EXCEPT !.resolved_path = @ \o RUNTIME_SUFFIX]

RECURSIVE Resolve(_, _, _)
RECURSIVE PluginDriverResolve(_, _, _)

\* FarmPluginRuntime::resolve. The value is [ret, delegated, entries]: what the
\* call returns, the params it handed to plugin_driver.resolve (in order), and
\* how many times this hook was entered on the way.
Resolve(param, caller, depth) ==
  IF depth > MaxResolveDepth
  THEN [ret |-> [kind |-> "StackOverflow"], delegated |-> <<>>, entries |-> 1]
  ELSE IF IsSelfCaller(caller)
  THEN [ret |-> None, delegated |-> <<>>, entries |-> 1]
  ELSE IF Qualifies(param)
  THEN LET inner == [param EXCEPT !.source = OriSource(param.source)]
           r == PluginDriverResolve(inner, Some(PluginName), depth + 1)
       IN [ret |-> IF r.ret.kind = "Some"
                   THEN Some(AppendSuffix(param, r.ret.value))
                   ELSE r.ret,  \* `?` hands an error on; None stays None
           delegated |-> <<inner>> \o r.delegated,
           entries |-> 1 + r.entries]
  ELSE [ret |-> None, delegated |-> <<>>, entries |-> 1]

PluginDriverResolveDropsCaller(param, caller, depth) ==
  LET own == Resolve(param, None, depth)
  IN IF own.ret.kind # "None"
     THEN own
     ELSE [own EXCEPT !.ret = GenericResolve(param)]

\* context.plugin_driver.resolve: every participant's resolve hook is tried
\* with the given hook context, this plugin's among them; the first answer
\* that is not None is the result.
PluginDriverResolve(param, caller, depth) ==
  LET own == Resolve(param, caller, depth)
  IN IF own.ret.kind # "None"
     THEN own
     ELSE [own EXCEPT !.ret = GenericResolve(param)]

NoResolveCall ==
  [called |-> FALSE,
   param |-> [source |-> <<>>, importer |-> None, kind |-> "Import"],
   caller |-> None,
   ret |-> None, delegated |-> <<>>, entries |-> 0]

\* the resolve hook called with the request at hand
ResolveCall ==
  /\ ~resolveCall.called
  /\ LET r == Resolve(resolveCall.param, resolveCall.caller, 1)
     IN resolveCall' = [resolveCall EXCEPT !.called = TRUE, !.ret = r.ret,
                                           !.delegated = r.delegated,
                                           !.entries = r.entries]
  /\ UNCHANGED <<depsVars, moduleVars, potVars, js>>

(***************************************************************************)
(* load                                                                    *)
(***************************************************************************)
\* the file systems a compilation runs on, each the set of paths that can be
\* read: none, the scripts, every path with a name
FileSystems ==
  { {},
    { s \in Strings(MaxPieces) : EndsWith(s, <<".", "j", "s">>) },
    { s \in Strings(MaxPieces) : s # <<>> } }

\* the content provider: the text of the file, or an I/O failure
ReadFileUtf8(path, fs) ==
  IF path \in fs THEN [kind |-> "Ok", value |-> [text_of |-> path]]
  ELSE Err("IoError")

\* module-type inference from the extension of the path
ModuleTypeFromId(path) ==
  IF EndsWith(path, <<".", "j", "s">>) THEN Some("Js") ELSE None

\* let real_file_path = param.resolved_path.replace(RUNTIME_SUFFIX, "")
RealFilePath(resolved_path) == Replace(resolved_path, RUNTIME_SUFFIX, <<>>)

LoadSkipsUnknownType(param, fs) ==
  IF EndsWith(param.resolved_path, RUNTIME_SUFFIX)
  THEN LET real_file_path == RealFilePath(param.resolved_path)
           content == ReadFileUtf8(real_file_path, fs)
       IN IF content.kind = "Err"
          THEN [ret |-> content, reads |-> <<real_file_path>>, infers |-> <<>>]
          ELSE LET module_type == ModuleTypeFromId(real_file_path)
               IN [ret |-> IF module_type.kind = "Some"
                           THEN Some([content |-> content.value,
                                      module_type |-> module_type.value])
                           ELSE None,
                   reads |-> <<real_file_path>>,
                   infers |-> <<real_file_path>>]
  ELSE [ret |-> None, reads |-> <<>>, infers |-> <<>>]

LoadInfersBeforeReading(param, fs) ==
  IF EndsWith(param.resolved_path, RUNTIME_SUFFIX)
  THEN LET real_file_path == RealFilePath(param.resolved_path)
           module_type == ModuleTypeFromId(real_file_path)
           content == ReadFileUtf8(real_file_path, fs)
       IN IF module_type.kind # "Some"
          THEN [ret |-> Panic("unknown module type"), reads |-> <<>>,
                infers |-> <<real_file_path>>]
          ELSE IF content.kind = "Err"
          THEN [ret |-> content, reads |-> <<real_file_path>>,
                infers |-> <<real_file_path>>]
          ELSE [ret |-> Some([content |-> content.value,
                              module_type |-> module_type.value]),
                reads |-> <<real_file_path>>, infers |-> <<real_file_path>>]
  ELSE [ret |-> None, reads |-> <<>>, infers |-> <<>>]

\* FarmPluginRuntime::load. The value is [ret, reads, infers]: what the call
\* returns, the paths it handed to read_file_utf8 and to module_type_from_id.
Load(param, fs) ==
  IF EndsWith(param.resolved_path, RUNTIME_SUFFIX)
  THEN LET real_file_path == RealFilePath(param.resolved_path)
           content == ReadFileUtf8(real_file_path, fs)
       IN IF content.kind = "Err"
          THEN [ret |-> content, reads |-> <<real_file_path>>, infers |-> <<>>]
          ELSE LET module_type == ModuleTypeFromId(real_file_path)
               IN [ret |-> IF module_type.kind = "Some"
                           THEN Some([content |-> content.value,
                                      module_type |-> module_type.value])
                           ELSE Panic("unknown module type"),
                   reads |-> <<real_file_path>>,
                   infers |-> <<real_file_path>>]
  ELSE [ret |-> None, reads |-> <<>>, infers |-> <<>>]

NoLoadCall ==
  [called |-> FALSE, param |-> [resolved_path |-> <<>>], fs |-> {},
   ret |-> None, reads |-> <<>>, infers |-> <<>>]

\* the load hook called with the resolved path at hand
LoadCall ==
  /\ ~loadCall.called
  /\ LET r == Load(loadCall.param, loadCall.fs)
     IN loadCall' = [loadCall EXCEPT !.called = TRUE, !.ret = r.ret,
                                     !.reads = r.reads, !.infers = r.infers]
  /\ UNCHANGED <<pipelineStage, finalizeCall, resolveVars, depsVars, potVars, js>>

(***************************************************************************)
(* analyze_deps                                                            *)
(***************************************************************************)
WILDCARD_HELPER == "@swc/helpers/_/_interop_require_wildcard"
DEFAULT_HELPER == "@swc/helpers/_/_interop_require_default"
EXPORT_STAR_HELPER == "@swc/helpers/_/_export_star"
Helpers == { WILDCARD_HELPER, DEFAULT_HELPER, EXPORT_STAR_HELPER }

\* ModuleItem: an import declaration with its specifiers, an export-all
\* declaration, or any other top-level statement
Import(specifiers) == [stmt |-> "Import", specifiers |-> specifiers]
ExportAll == [stmt |-> "ExportAll", specifiers |-> <<>>]
OtherStmt == [stmt |-> "Other", specifiers |-> <<>>]

Stmts ==
  { Import(<<"Namespace">>), Import(<<"Default">>), Import(<<"Named">>),
    Import(<<"Default", "Namespace">>), Import(<<>>), ExportAll, OtherStmt }

RECURSIVE Bodies(_)
\* the statement lists of at most n statements
Bodies(n) ==
  IF n = 0 THEN { <<>> }
  ELSE Bodies(n - 1) \cup { Append(b, s) : b \in Bodies(n - 1), s \in Stmts }

Dep(kind, source) == [kind |-> kind, source |-> source]

\* dependency lists a module arrives with
InitialDeps ==
  { <<>>,
    << Dep("Import", "./b") >>,
    << Dep("Import", "./b"), Dep("Import", WILDCARD_HELPER) >>,
    << Dep("Require", DEFAULT_HELPER), Dep("Import", DEFAULT_HELPER) >>,
    << Dep("ExportFrom", "./c"), Dep("Require", EXPORT_STAR_HELPER) >> }

ModuleIds ==
  { <<"a">> \o <<".", "j", "s">> \o RUNTIME_SUFFIX,
    <<"a">> \o <<".", "j", "s">>,
    <<"a">> \o RUNTIME_SUFFIX \o <<".", "j", "s">> }

HasSpecifier(stmt, sp) == \E i \in 1..Len(stmt.specifiers) : stmt.specifiers[i] = sp

NoFlags == [import_star |-> FALSE, import_default |-> FALSE, export_star |-> FALSE]

ScanStmtAnyImport(flags, stmt) ==
  IF stmt.stmt = "Import"
  THEN [flags EXCEPT !.import_star = flags.export_star \/ HasSpecifier(stmt, "Namespace"),
                     !.import_default = TRUE]
  ELSE IF stmt.stmt = "ExportAll"
       THEN [flags EXCEPT !.export_star = TRUE]
       ELSE flags

\* one iteration of `for stmt in &script.ast.body`
ScanStmt(flags, stmt) ==
  IF stmt.stmt = "Import"
  THEN [flags EXCEPT !.import_star = flags.export_star \/ HasSpecifier(stmt, "Namespace"),
                     !.import_default = flags.import_default \/ HasSpecifier(stmt, "Default")]
  ELSE IF stmt.stmt = "ExportAll"
       THEN [flags EXCEPT !.export_star = TRUE]
       ELSE flags

RECURSIVE ScanFrom(_, _, _)
ScanFrom(flags, body, i) ==
  IF i > Len(body) THEN flags ELSE ScanFrom(ScanStmt(flags, body[i]), body, i + 1)

\* has_import_star, has_import_default, has_export_star after the loop
Scan(body) == ScanFrom(NoFlags, body, 1)

ExistsNever(source, deps) == FALSE

\* the closure `exists`
Exists(source, deps) == \E i \in 1..Len(deps) : deps[i].source = source

\* the closure `insert_import`
InsertImport(source, kind, deps) == Append(deps, Dep(kind, source))

AddHelper(flag, source, deps) ==
  IF flag /\ ~Exists(source, deps) THEN InsertImport(source, "Import", deps) ELSE deps

\* FarmPluginRuntime::analyze_deps on param = [id, meta, body, deps]; the
\* value is [ret, deps]
AnalyzeDepsHook(param) ==
  IF ~EndsWith(param.id, RUNTIME_SUFFIX)
  THEN [ret |-> None, deps |-> param.deps]
  ELSE IF param.meta = "Script"
  THEN LET f == Scan(param.body)
           d1 == AddHelper(f.import_star, WILDCARD_HELPER, param.deps)
           d2 == AddHelper(f.import_default, DEFAULT_HELPER, d1)
           d3 == AddHelper(f.export_star, EXPORT_STAR_HELPER, d2)
       IN [ret |-> Some(Unit), deps |-> d3]
  ELSE [ret |-> None, deps |-> param.deps]

NoModule == [id |-> <<>>, meta |-> "Script", body |-> <<>>, deps |-> <<>>]

\* one run of the analyze_deps hook on the module
AnalyzeDeps ==
  /\ Len(depsHist) < MaxRuns
  /\ LET r == AnalyzeDepsHook(module)
     IN /\ module' = [module EXCEPT !.deps = r.deps]
        /\ depsHist' = Append(depsHist, r.deps)
        /\ analyzeRet' = r.ret
  /\ UNCHANGED <<resolveCall, deps0, moduleVars, potVars, js>>

(***************************************************************************)
(* finalize_module                                                         *)
(***************************************************************************)
\* the module-system classifier, from the kinds of the dependencies
ModuleSystemFromDeps(kinds) ==
  LET es == \E i \in 1..Len(kinds) : kinds[i] \in {"Import", "ExportFrom"}
      cjs == \E i \in 1..Len(kinds) : kinds[i] = "Require"
  IN IF es /\ cjs THEN "Hybrid"
     ELSE IF es THEN "EsModule"
     ELSE IF cjs THEN "CommonJs"
     ELSE "Unknown"

\* param.deps.iter().map(|d| d.kind.clone()).collect()
Kinds(deps) == [i \in 1..Len(deps) |-> deps[i].kind]

\* the params finalize_module is called on: module = [id, module_type,
\* module_system] of a script module (its meta holds a script), and deps
FinalizeParams ==
  { [module |-> [id |-> id, module_type |-> ty, module_system |-> sys],
     deps |-> deps] :
      id \in ModuleIds, ty \in {"Js", "Ts"}, sys \in {"EsModule", "CommonJs"},
      deps \in InitialDeps }

FinalizeModuleHookAnyModule(param) ==
  [ret |-> Some(Unit),
   param |-> [param EXCEPT !.module.module_type = "Runtime",
                           !.module.module_system = "EsModule"]]

\* FarmPluginRuntime::finalize_module; the value is [ret, param]
FinalizeModuleHook(param) ==
  IF EndsWith(param.module.id, RUNTIME_SUFFIX)
  THEN [ret |-> Some(Unit),
        param |-> [param EXCEPT
                     !.module.module_type = "Runtime",
                     !.module.module_system =
                        IF param.deps # <<>>
                        THEN ModuleSystemFromDeps(Kinds(param.deps))
                        ELSE "EsModule"]]  \* default to es module
  ELSE [ret |-> None, param |-> param]

NoFinalizeCall ==
  [called |-> FALSE,
   before |-> [module |-> [id |-> <<>>, module_type |-> "Js",
                           module_system |-> "EsModule"],
               deps |-> <<>>],
   param |-> [module |-> [id |-> <<>>, module_type |-> "Js",
                          module_system |-> "EsModule"],
              deps |-> <<>>],
   ret |-> None]

\* the finalize_module hook called on the param at hand
FinalizeModule ==
  /\ ~finalizeCall.called
  /\ LET r == FinalizeModuleHook(finalizeCall.param)
     IN finalizeCall' = [finalizeCall EXCEPT !.called = TRUE, !.ret = r.ret,
                                             !.param = r.param]
  /\ UNCHANGED <<pipelineStage, loadCall, resolveVars, depsVars, potVars, js>>

(***************************************************************************)
(* Resource pots, the cached bootstrap bundle and the hooks on them.       *)
(***************************************************************************)
Procs == 1..NumProcs

RuntimePot ==
  [id |-> "FARM_RUNTIME", resource_pot_type |-> "Runtime",
   entry_module |-> Some("main.farm-runtime"),
   modules |-> <<"main.farm-runtime", "plugin.farm-runtime", "helper.farm-runtime">>]

OtherRuntimePot ==
  [id |-> "FARM_RUNTIME_2", resource_pot_type |-> "Runtime",
   entry_module |-> Some("alt.farm-runtime"),
   modules |-> <<"alt.farm-runtime">>]

JsPot ==
  [id |-> "index", resource_pot_type |-> "Js", entry_module |-> None,
   modules |-> <<"src/index.ts", "src/util.ts">>]

CssPot ==
  [id |-> "style", resource_pot_type |-> "Css", entry_module |-> None,
   modules |-> <<"src/index.css">>]

AllPots == { RuntimePot, OtherRuntimePot, JsPot, CssPot }
PotIds == { p.id : p \in AllPots }
RuntimePotIds == { p.id : p \in { q \in AllPots : q.resource_pot_type = "Runtime" } }

\* the pots of a compilation: one Runtime pot, or two of different content
Compilations == { {RuntimePot, JsPot, CssPot}, AllPots }

\* the lists process_resource_pots is called with
PotLists(ps) ==
  { l \in { <<JsPot, CssPot>>, <<JsPot, RuntimePot>>,
            <<OtherRuntimePot, RuntimePot>>, <<CssPot, OtherRuntimePot>> } :
      \A i \in 1..Len(l) : l[i] \in ps }

\* resource_pot_to_runtime_object: the pot's modules as one module-keyed
\* object literal, with the fragments of the modules rendered
RenderPot(pot) ==
  [bundle |-> << [object |-> pot.modules] >>,
   rendered_modules |-> { pot.modules[i] : i \in 1..Len(pot.modules) }]

BOOTSTRAP_PRELUDE == "(function (modules, entryModule) { var cache = {}; function require(id) { if (cache[id]) return cache[id].exports; var module = { id: id, exports: {} }; modules[id](module, module.exports, require); cache[id] = module; return module.exports; } require(entryModule); })("

REGISTRATION_PRELUDE == "(function (modules) { for (var key in modules) { var __farm_global_this__ = (globalThis || window || global || self)[__farm_namespace__]; __farm_global_this__.__farm_module_system__.register(key, modules[key]); } })("

\* format!(", {:?});", id): the id as a quoted string literal
DebugFmt(id) == [quoted |-> id]

\* bundle.prepend(..); bundle.append(..) of process_resource_pots (the
\* Runtime pots here all have an entry module, so unwrap() succeeds)
BootstrapBundle(pot) ==
  <<BOOTSTRAP_PRELUDE>> \o RenderPot(pot).bundle
    \o <<", ", DebugFmt(pot.entry_module.value), ");">>

\* bundle.prepend(..); bundle.append(");") of render_resource_pot_modules
RegistrationBundle(pot) ==
  <<REGISTRATION_PRELUDE>> \o RenderPot(pot).bundle \o <<");">>

RECURSIVE FirstRuntimeFrom(_, _)
\* the index of the first Runtime pot of the list from i on, 0 if there is none
FirstRuntimeFrom(list, i) ==
  IF i > Len(list) THEN 0
  ELSE IF list[i].resource_pot_type = "Runtime" THEN i
       ELSE FirstRuntimeFrom(list, i + 1)

FirstRuntime(list) == FirstRuntimeFrom(list, 1)

\* String::as_bytes().to_vec(): the text's own bytes
AsBytes(text) == text

RuntimeResourceEmitFlagOff(pot, content) ==
  [name |-> pot.id, bytes |-> AsBytes(content), emitted |-> FALSE,
   resource_type |-> "Runtime", origin |-> [ResourcePot |-> pot.id]]

\* the Resource generate_resources builds from the pot and its rendered content
RuntimeResource(pot, content) ==
  [name |-> pot.id, bytes |-> AsBytes(content), emitted |-> TRUE,
   resource_type |-> "Runtime", origin |-> [ResourcePot |-> pot.id]]

\* FarmPluginRuntime::generate_resources on a pot whose meta holds `content`
GenerateResourcesHook(pot, content, caller) ==
  IF caller = Some(PluginName) THEN None
  ELSE IF pot.resource_pot_type = "Runtime"
       THEN Some([resource |-> RuntimeResource(pot, content), source_map |-> None])
       ELSE None

\* ResourcePotMetaData
Meta(modules, content, chain) ==
  [rendered_modules |-> modules, rendered_content |-> content,
   rendered_map_chain |-> chain]

NoReturn == [hook |-> "none", ret |-> None, late |-> FALSE]
NoGenerate ==
  [called |-> FALSE, pot |-> "FARM_RUNTIME", caller |-> None, ret |-> None,
   inOrder |-> FALSE, cache |-> <<>>]

\* the pipeline makes its next hook call: the results of the calls before
\* it have been taken
Forget ==
  /\ lastReturn' = NoReturn
  /\ generated' = NoGenerate

\* a hook call of thread t returns ret
Return(t, hook, ret) ==
  /\ pc' = [pc EXCEPT ![t] = "idle"]
  /\ arg' = [arg EXCEPT ![t] = <<>>]
  /\ bundle' = [bundle EXCEPT ![t] = <<>>]
  /\ ordered' = [ordered EXCEPT ![t] = FALSE]
  /\ late' = [late EXCEPT ![t] = FALSE]
  /\ lastReturn' = [hook |-> hook, ret |-> ret, late |-> late[t]]

\* a process_resource_pots call on the list returned Ok: its pots go on to
\* the render stage
Processed(list) ==
  stage' = [id \in RuntimePotIds |->
              IF stage[id] = 0 /\ \E i \in 1..Len(list) : list[i].id = id
              THEN 1 ELSE stage[id]]

CacheIsEmptyAlways(code) == TRUE

\* .is_empty() of the cached bundle
CacheIsEmpty(code) == code = <<>>

\* the pipeline calls process_resource_pots
ProcessResourcePotsCall(t) ==
  /\ pc[t] = "idle"
  /\ callsLeft > 0
  /\ callsLeft' = callsLeft - 1
  /\ \E list \in PotLists(pots) : arg' = [arg EXCEPT ![t] = list]
  /\ pc' = [pc EXCEPT ![t] = "prp_lock"]
  /\ late' = [late EXCEPT ![t] = runtime_code # <<>>]
  /\ Forget
  /\ UNCHANGED <<otherVars, pots, runtime_code, lockVars, bundle, ordered,
                 renderLog, cacheWrites, stage, potMeta>>

\* self.runtime_code.lock() of `if !self.runtime_code.lock().is_empty()`
PrpLock(t) ==
  /\ pc[t] = "prp_lock"
  /\ mutex = 0
  /\ mutex' = t
  /\ pc' = [pc EXCEPT ![t] = "prp_check"]
  /\ UNCHANGED <<otherVars, pots, runtime_code, graphWriter, graphReaders,
                 arg, bundle, ordered, late, callsLeft, renderLog, cacheWrites, stage,
                 potMeta, lastReturn, generated>>

PrpCheckKeepsGuard(t) ==
  /\ pc[t] = "prp_check"
  /\ mutex = t
  /\ IF ~CacheIsEmpty(runtime_code)
     THEN /\ mutex' = 0
          /\ Return(t, "process_resource_pots", None)
          /\ Processed(arg[t])
     ELSE /\ mutex' = t
          /\ pc' = [pc EXCEPT ![t] = "prp_write_lock"]
          /\ UNCHANGED <<arg, bundle, ordered, late, lastReturn, stage>>
  /\ UNCHANGED <<otherVars, pots, runtime_code, graphWriter, graphReaders,
                 callsLeft, renderLog, cacheWrites, potMeta, generated>>

\* is_empty(), the guard dropped; return Ok(None) when the cache is filled
PrpCheck(t) ==
  /\ pc[t] = "prp_check"
  /\ mutex = t
  /\ mutex' = 0
  /\ IF ~CacheIsEmpty(runtime_code)
     THEN /\ Return(t, "process_resource_pots", None)
          /\ Processed(arg[t])
     ELSE /\ pc' = [pc EXCEPT ![t] = "prp_write_lock"]
          /\ UNCHANGED <<arg, bundle, ordered, late, lastReturn, stage>>
  /\ UNCHANGED <<otherVars, pots, runtime_code, graphWriter, graphReaders,
                 callsLeft, renderLog, cacheWrites, potMeta, generated>>

\* let module_graph = context.module_graph.write()
PrpWriteLock(t) ==
  /\ pc[t] = "prp_write_lock"
  /\ graphWriter = 0
  /\ graphReaders = {}
  /\ graphWriter' = t
  /\ pc' = [pc EXCEPT ![t] = "prp_loop"]
  /\ UNCHANGED <<otherVars, pots, runtime_code, mutex, graphReaders,
                 arg, bundle, ordered, late, callsLeft, renderLog, cacheWrites, stage,
                 potMeta, lastReturn, generated>>

\* the loop found no Runtime pot: Ok(Some(())), the write lock dropped
PrpNoRuntimePot(t) ==
  /\ pc[t] = "prp_loop"
  /\ FirstRuntime(arg[t]) = 0
  /\ graphWriter' = 0
  /\ Return(t, "process_resource_pots", Some(Unit))
  /\ Processed(arg[t])
  /\ UNCHANGED <<otherVars, pots, runtime_code, mutex, graphReaders,
                 callsLeft, renderLog, cacheWrites, potMeta, generated>>

\* the loop reached the first Runtime pot: resource_pot_to_runtime_object is
\* called; its error returns (`?`), its bundle is wrapped
PrpRender(t) ==
  /\ pc[t] = "prp_loop"
  /\ FirstRuntime(arg[t]) # 0
  /\ \E ok \in BOOLEAN :
       /\ renderLog' = Append(renderLog, [ok |-> ok])
       /\ IF ok
          THEN /\ bundle' = [bundle EXCEPT
                               ![t] = BootstrapBundle(arg[t][FirstRuntime(arg[t])])]
               /\ pc' = [pc EXCEPT ![t] = "prp_store_lock"]
               /\ UNCHANGED <<arg, ordered, late, lastReturn, graphWriter>>
          ELSE /\ graphWriter' = 0
               /\ Return(t, "process_resource_pots", Err("RenderError"))
  /\ UNCHANGED <<otherVars, pots, runtime_code, mutex, graphReaders,
                 callsLeft, cacheWrites, stage, potMeta, generated>>

\* self.runtime_code.lock() of the assignment, module_graph still write-locked
PrpStoreLock(t) ==
  /\ pc[t] = "prp_store_lock"
  /\ mutex = 0
  /\ mutex' = t
  /\ pc' = [pc EXCEPT ![t] = "prp_store"]
  /\ UNCHANGED <<otherVars, pots, runtime_code, graphWriter, graphReaders,
                 arg, bundle, ordered, late, callsLeft, renderLog, cacheWrites, stage,
                 potMeta, lastReturn, generated>>

\* *guard = Arc::new(bundle.to_string()); break; Ok(Some(())), both locks dropped
PrpStore(t) ==
  /\ pc[t] = "prp_store"
  /\ mutex = t
  /\ runtime_code' = bundle[t]
  /\ cacheWrites' = cacheWrites + 1
  /\ mutex' = 0
  /\ graphWriter' = 0
  /\ Return(t, "process_resource_pots", Some(Unit))
  /\ Processed(arg[t])
  /\ UNCHANGED <<otherVars, pots, graphReaders, callsLeft,
                 renderLog, potMeta, generated>>

\* the pipeline calls render_resource_pot_modules on a pot
RenderResourcePotModulesCall(t) ==
  /\ pc[t] = "idle"
  /\ callsLeft > 0
  /\ callsLeft' = callsLeft - 1
  /\ generated' = NoGenerate
  /\ \E pot \in pots :
       IF pot.resource_pot_type = "Runtime"
       THEN /\ pc' = [pc EXCEPT ![t] = "rrpm_lock"]
            /\ arg' = [arg EXCEPT ![t] = <<pot>>]
            /\ ordered' = [ordered EXCEPT ![t] = stage[pot.id] >= 1]
            /\ lastReturn' = NoReturn
            /\ UNCHANGED <<bundle, late>>
       ELSE IF pot.resource_pot_type = "Js"
       THEN /\ pc' = [pc EXCEPT ![t] = "rrpm_read_lock"]
            /\ arg' = [arg EXCEPT ![t] = <<pot>>]
            /\ lastReturn' = NoReturn
            /\ UNCHANGED <<bundle, ordered, late>>
       ELSE /\ pc' = [pc EXCEPT ![t] = "rrpm_other"]
            /\ arg' = [arg EXCEPT ![t] = <<pot>>]
            /\ lastReturn' = NoReturn
            /\ UNCHANGED <<bundle, ordered, late>>
  /\ UNCHANGED <<otherVars, pots, runtime_code, lockVars, renderLog,
                 cacheWrites, stage, potMeta>>

\* self.runtime_code.lock() of the Runtime branch
RrpmLock(t) ==
  /\ pc[t] = "rrpm_lock"
  /\ mutex = 0
  /\ mutex' = t
  /\ pc' = [pc EXCEPT ![t] = "rrpm_read"]
  /\ UNCHANGED <<otherVars, pots, runtime_code, graphWriter, graphReaders,
                 arg, bundle, ordered, late, callsLeft, renderLog, cacheWrites, stage,
                 potMeta, lastReturn, generated>>

\* the pipeline stores a returned ResourcePotMetaData in the pot's meta
StoreMeta(t, id, content) ==
  /\ potMeta' = [potMeta EXCEPT ![id] = content]
  /\ stage' = IF ordered[t] THEN [stage EXCEPT ![id] = 2] ELSE stage

\* rendered_content: the cached bundle cloned, the guard dropped, Ok(Some(..))
RrpmRead(t) ==
  /\ pc[t] = "rrpm_read"
  /\ mutex = t
  /\ mutex' = 0
  /\ Return(t, "render_resource_pot_modules", Some(Meta({}, runtime_code, <<>>)))
  /\ StoreMeta(t, arg[t][1].id, runtime_code)
  /\ UNCHANGED <<otherVars, pots, runtime_code, graphWriter, graphReaders,
                 callsLeft, renderLog, cacheWrites, generated>>

\* let module_graph = context.module_graph.read()
RrpmReadLock(t) ==
  /\ pc[t] = "rrpm_read_lock"
  /\ graphWriter = 0
  /\ graphReaders' = graphReaders \cup {t}
  /\ pc' = [pc EXCEPT ![t] = "rrpm_render"]
  /\ UNCHANGED <<otherVars, pots, runtime_code, mutex, graphWriter,
                 arg, bundle, ordered, late, callsLeft, renderLog, cacheWrites, stage,
                 potMeta, lastReturn, generated>>

\* the Js branch: the pot rendered and wrapped for registration, its source
\* map generated and serialized when source maps are enabled for the pot
RrpmRender(t) ==
  /\ pc[t] = "rrpm_render"
  /\ graphReaders' = graphReaders \ {t}
  /\ \E sourcemap \in BOOLEAN,
        out \in {"ok", "RenderError", "GenerateSourceMapError", "RenderScriptModuleError"} :
       /\ out \in {"GenerateSourceMapError", "RenderScriptModuleError"} => sourcemap
       /\ IF out = "ok"
          THEN LET pot == arg[t][1]
                   text == RegistrationBundle(pot)
                   chain == IF sourcemap THEN << [map |-> pot.id] >> ELSE <<>>
               IN /\ Return(t, "render_resource_pot_modules",
                            Some(Meta(RenderPot(pot).rendered_modules, text, chain)))
                  /\ StoreMeta(t, pot.id, text)
          ELSE /\ Return(t, "render_resource_pot_modules", Err(out))
               /\ UNCHANGED <<potMeta, stage>>
  /\ UNCHANGED <<otherVars, pots, runtime_code, mutex, graphWriter,
                 callsLeft, renderLog, cacheWrites, generated>>

\* a pot that is neither Runtime nor Js: Ok(None)
RrpmNotHandled(t) ==
  /\ pc[t] = "rrpm_other"
  /\ Return(t, "render_resource_pot_modules", None)
  /\ UNCHANGED <<otherVars, pots, runtime_code, lockVars, callsLeft, renderLog,
                 cacheWrites, stage, potMeta, generated>>

\* the pipeline calls generate_resources on a pot
GenerateResources(t) ==
  /\ pc[t] = "idle"
  /\ callsLeft > 0
  /\ callsLeft' = callsLeft - 1
  /\ lastReturn' = NoReturn
  /\ \E pot \in pots, caller \in Callers :
       generated' = [called |-> TRUE, pot |-> pot.id, caller |-> caller,
                     ret |-> GenerateResourcesHook(pot, potMeta[pot.id], caller),
                     inOrder |-> pot.id \in RuntimePotIds /\ stage[pot.id] = 2,
                     cache |-> runtime_code]
  /\ UNCHANGED <<otherVars, pots, runtime_code, lockVars, pc, arg, bundle,
                 ordered, late, renderLog, cacheWrites, stage, potMeta>>

(***************************************************************************)
(* Evaluation of the two wrappers, as the script engine runs their text.   *)
(* A module factory is known by the ids it passes to `require`, in order.  *)
(***************************************************************************)
\* the factories' bodies: for each member module the requires it makes
RECURSIVE RequireLists(_, _)
RequireLists(ids, n) ==
  IF n = 0 THEN { <<>> }
  ELSE RequireLists(ids, n - 1)
         \cup { Append(l, id) : l \in RequireLists(ids, n - 1), id \in ids }

\* modules: the object literal of the bundle; entryModule: its last argument
BundleModules(text) == text[2].object
BundleEntry(text) == text[4].quoted
Keys(text) == { BundleModules(text)[i] : i \in 1..Len(BundleModules(text)) }

WrapperRequiresEveryModule(text) == BundleModules(text)

\* the requires the bootstrap wrapper makes itself: require(entryModule)
WrapperRequires(text) == << BundleEntry(text) >>

JsAtRest ==
  [mode |-> "none", text |-> <<>>, body |-> <<>>, status |-> "done",
   next |-> 1, stack |-> <<>>, cache |-> {}, invoked |-> <<>>, registered |-> <<>>]

\* the ids of the factories that are running
Running(stack) == { stack[i].id : i \in 1..Len(stack) }

\* require(id) called by `by`: the cached exports are returned; else the
\* factory modules[id] is called with a fresh module record
Require(id, by, st) ==
  IF id \in st.cache THEN st
  ELSE IF id \notin Keys(st.text)
  THEN [st EXCEPT !.status = "TypeError"]       \* modules[id] is not a function
  ELSE IF Len(st.stack) >= MaxStack
  THEN [st EXCEPT !.status = "RangeError"]      \* the call stack is exhausted
  ELSE [st EXCEPT !.stack = Append(@, [id |-> id, next |-> 1]),
                  !.invoked = Append(@, [id |-> id, by |-> by,
                                         running |-> Running(st.stack)])]

\* the body of the bootstrap wrapper: require(entryModule)
JsWrapperRequire ==
  /\ js.mode = "bootstrap"
  /\ js.status = "running"
  /\ js.stack = <<>>
  /\ js.next <= Len(WrapperRequires(js.text))
  /\ js' = Require(WrapperRequires(js.text)[js.next], "wrapper",
                   [js EXCEPT !.next = @ + 1])
  /\ UNCHANGED <<resolveVars, depsVars, moduleVars, potVars>>

\* the wrapper has made its requires: the evaluation is over
JsWrapperDone ==
  /\ js.mode = "bootstrap"
  /\ js.status = "running"
  /\ js.stack = <<>>
  /\ js.next > Len(WrapperRequires(js.text))
  /\ js' = [js EXCEPT !.status = "done"]
  /\ UNCHANGED <<resolveVars, depsVars, moduleVars, potVars>>

\* the running factory calls require on the next id of its body
JsFactoryRequire ==
  /\ js.mode = "bootstrap"
  /\ js.status = "running"
  /\ js.stack # <<>>
  /\ LET top == js.stack[Len(js.stack)]
     IN /\ top.next <= Len(js.body[top.id])
        /\ js' = Require(js.body[top.id][top.next], top.id,
                         [js EXCEPT !.stack[Len(js.stack)].next = @ + 1])
  /\ UNCHANGED <<resolveVars, depsVars, moduleVars, potVars>>

\* the running factory returns: cache[id] = module; return module.exports
JsFactoryReturn ==
  /\ js.mode = "bootstrap"
  /\ js.status = "running"
  /\ js.stack # <<>>
  /\ LET top == js.stack[Len(js.stack)]
     IN /\ top.next > Len(js.body[top.id])
        /\ js' = [js EXCEPT !.stack = SubSeq(@, 1, Len(@) - 1),
                            !.cache = @ \cup {top.id}]
  /\ UNCHANGED <<resolveVars, depsVars, moduleVars, potVars>>

\* __farm_module_system__.register(key, modules[key])
Register(key, st) == [st EXCEPT !.registered = Append(@, key)]

\* one turn of `for (var key in modules)` of the registration wrapper
JsRegister ==
  /\ js.mode = "registration"
  /\ js.status = "running"
  /\ js.next <= Len(BundleModules(js.text))
  /\ js' = Register(BundleModules(js.text)[js.next], [js EXCEPT !.next = @ + 1])
  /\ UNCHANGED <<resolveVars, depsVars, moduleVars, potVars>>

\* the loop of the registration wrapper is over
JsRegisterDone ==
  /\ js.mode = "registration"
  /\ js.status = "running"
  /\ js.next > Len(BundleModules(js.text))
  /\ js' = [js EXCEPT !.status = "done"]
  /\ UNCHANGED <<resolveVars, depsVars, moduleVars, potVars>>

(***************************************************************************)
(* Specifications: one per component, the other components at rest.        *)
(***************************************************************************)
ResolveAtRest == resolveCall = NoResolveCall

ModuleAtRest ==
  /\ loadCall = NoLoadCall
  /\ finalizeCall = NoFinalizeCall

DepsAtRest ==
  /\ js = JsAtRest
  /\ module = NoModule
  /\ deps0 = <<>>
  /\ depsHist = <<>>
  /\ analyzeRet = None

PotsAtRest ==
  /\ pots = {RuntimePot, JsPot, CssPot}
  /\ runtime_code = <<>>
  /\ mutex = 0
  /\ graphWriter = 0
  /\ graphReaders = {}
  /\ pc = [t \in Procs |-> "idle"]
  /\ arg = [t \in Procs |-> <<>>]
  /\ bundle = [t \in Procs |-> <<>>]
  /\ ordered = [t \in Procs |-> FALSE]
  /\ late = [t \in Procs |-> FALSE]
  /\ callsLeft = 0
  /\ renderLog = <<>>
  /\ cacheWrites = 0
  /\ stage = [id \in RuntimePotIds |-> 0]
  /\ potMeta = [id \in PotIds |-> <<>>]
  /\ lastReturn = NoReturn
  /\ generated = NoGenerate

InitResolve ==
  /\ \E source \in Sources, importer \in Importers,
        kind \in ResolveKinds, caller \in Callers :
       resolveCall =
         [NoResolveCall EXCEPT
            !.param = [source |-> source, importer |-> importer, kind |-> kind],
            !.caller = caller]
  /\ pipelineStage = "resolve"
  /\ ModuleAtRest
  /\ DepsAtRest
  /\ PotsAtRest

NextResolve == ResolveCall

SpecResolve == InitResolve /\ [][NextResolve]_vars

InitDeps ==
  /\ pipelineStage = "analyze_deps"
  /\ ResolveAtRest
  /\ ModuleAtRest
  /\ PotsAtRest
  /\ js = JsAtRest
  /\ \E id \in ModuleIds, meta \in {"Script", "Css"},
        body \in Bodies(MaxStmts), deps \in InitialDeps :
       /\ module = [id |-> id, meta |-> meta, body |-> body, deps |-> deps]
       /\ deps0 = deps
  /\ depsHist = <<>>
  /\ analyzeRet = None

NextDeps == AnalyzeDeps

SpecDeps == InitDeps /\ [][NextDeps]_vars

\* a resolved path about to be loaded, on one of the file systems
InitLoad ==
  /\ pipelineStage = "load"
  /\ ResolveAtRest
  /\ DepsAtRest
  /\ PotsAtRest
  /\ finalizeCall = NoFinalizeCall
  /\ \E resolved_path \in Strings(MaxPieces), fs \in FileSystems :
       loadCall = [NoLoadCall EXCEPT !.param = [resolved_path |-> resolved_path],
                                     !.fs = fs]

NextLoad == LoadCall

SpecLoad == InitLoad /\ [][NextLoad]_vars

\* a module with its dependencies collected, about to be finalized
InitFinalize ==
  /\ pipelineStage = "finalize_module"
  /\ ResolveAtRest
  /\ DepsAtRest
  /\ PotsAtRest
  /\ loadCall = NoLoadCall
  /\ \E param \in FinalizeParams :
       finalizeCall = [NoFinalizeCall EXCEPT !.before = param, !.param = param]

\* a bundle this plugin emitted, about to be evaluated
InitBundle ==
  /\ pipelineStage = "evaluation"
  /\ ResolveAtRest
  /\ ModuleAtRest
  /\ module = NoModule
  /\ deps0 = <<>>
  /\ depsHist = <<>>
  /\ analyzeRet = None
  /\ PotsAtRest
  /\ \E mode \in {"bootstrap", "registration"}, pot \in AllPots :
       /\ pot.resource_pot_type = (IF mode = "bootstrap" THEN "Runtime" ELSE "Js")
       /\ LET text == IF mode = "bootstrap"
                      THEN BootstrapBundle(pot) ELSE RegistrationBundle(pot)
          IN \E body \in [Keys(text) -> RequireLists(Keys(text), MaxRequires)] :
               js = [JsAtRest EXCEPT !.mode = mode, !.text = text, !.body = body,
                                     !.status = "running"]

NextBundle ==
  \/ JsWrapperRequire
  \/ JsWrapperDone
  \/ JsFactoryRequire
  \/ JsFactoryReturn
  \/ JsRegister
  \/ JsRegisterDone

SpecBundle == InitBundle /\ [][NextBundle]_vars

\* FarmPluginRuntime::new, and a compilation of the pots ps about to make
\* `calls` calls of the pot hooks
InitPots(ps, calls) ==
  /\ pipelineStage = "resource_pots"
  /\ ResolveAtRest
  /\ ModuleAtRest
  /\ DepsAtRest
  /\ pots = ps
  /\ runtime_code = <<>>
  /\ mutex = 0
  /\ graphWriter = 0
  /\ graphReaders = {}
  /\ pc = [t \in Procs |-> "idle"]
  /\ arg = [t \in Procs |-> <<>>]
  /\ bundle = [t \in Procs |-> <<>>]
  /\ ordered = [t \in Procs |-> FALSE]
  /\ late = [t \in Procs |-> FALSE]
  /\ callsLeft = calls
  /\ renderLog = <<>>
  /\ cacheWrites = 0
  /\ stage = [id \in RuntimePotIds |-> 0]
  /\ potMeta = [id \in PotIds |-> <<>>]
  /\ lastReturn = NoReturn
  /\ generated = NoGenerate

Init == \E ps \in Compilations : InitPots(ps, MaxCalls)

Next ==
  \E t \in Procs :
    \/ ProcessResourcePotsCall(t)
    \/ PrpLock(t)
    \/ PrpCheck(t)
    \/ PrpWriteLock(t)
    \/ PrpNoRuntimePot(t)
    \/ PrpRender(t)
    \/ PrpStoreLock(t)
    \/ PrpStore(t)
    \/ RenderResourcePotModulesCall(t)
    \/ RrpmLock(t)
    \/ RrpmRead(t)
    \/ RrpmReadLock(t)
    \/ RrpmRender(t)
    \/ RrpmNotHandled(t)
    \/ GenerateResources(t)

Spec == Init /\ [][Next]_vars

\* the steps of the hook call thread t is in
ThreadSteps(t) ==
  \/ PrpLock(t)
  \/ PrpCheck(t)
  \/ PrpWriteLock(t)
  \/ PrpNoRuntimePot(t)
  \/ PrpRender(t)
  \/ PrpStoreLock(t)
  \/ PrpStore(t)
  \/ RrpmLock(t)
  \/ RrpmRead(t)
  \/ RrpmReadLock(t)
  \/ RrpmRender(t)
  \/ RrpmNotHandled(t)

\* the calls of the hooks that take locks, and their steps
NextLocking ==
  \E t \in Procs :
    \/ ProcessResourcePotsCall(t)
    \/ RenderResourcePotModulesCall(t)
    \/ ThreadSteps(t)

\* every thread of the pipeline makes a call of process_resource_pots or
\* render_resource_pot_modules, all at once or one after another. A thread
\* inside a call runs on whenever it can: it is scheduled, and a lock that
\* stays free is given to a thread waiting for it
SpecFair ==
  /\ InitPots(AllPots, NumProcs)
  /\ [][NextLocking]_vars
  /\ \A t \in Procs : WF_vars(ThreadSteps(t))

\* the pipeline taking a pot through its stages (process, render, generate)
\* while another process_resource_pots call is under way: one call more
InitStages == InitPots(AllPots, MaxCalls + 1)

SpecStages == InitStages /\ [][Next]_vars

\* the hooks of the pipeline, one stage at a time: each stage's hook is
\* called on the inputs of that stage
InitHooks == InitResolve \/ InitLoad \/ InitDeps \/ InitFinalize \/ Init

NextHooks ==
  \/ pipelineStage = "resolve" /\ ResolveCall
  \/ pipelineStage = "load" /\ LoadCall
  \/ pipelineStage = "analyze_deps" /\ AnalyzeDeps
  \/ pipelineStage = "finalize_module" /\ FinalizeModule
  \/ pipelineStage = "resource_pots" /\ Next

SpecHooks == InitHooks /\ [][NextHooks]_vars

(***************************************************************************)
(* Properties of resolve (checked under SpecResolve).                      *)
(***************************************************************************)
Suffixed(s) == EndsWith(s, RUNTIME_SUFFIX)

\* the source without its final RUNTIME_SUFFIX
RealPath(source) == SubSeq(source, 1, Len(source) - Len(RUNTIME_SUFFIX))

\* C2: a resolve request whose caller tag is "FarmPluginRuntime" returns
\* None and hands nothing to the generic resolver, whatever the source and
\* the importer.
C2_SelfCallerNotHandled ==
  (resolveCall.called /\ resolveCall.caller = Some(PluginName))
    => (resolveCall.ret = None /\ resolveCall.delegated = <<>>)

C2_Witness ==
  /\ resolveCall.called
  /\ resolveCall.caller = Some(PluginName)
  /\ Suffixed(resolveCall.param.source)
  /\ resolveCall.param.importer # None
  /\ Suffixed(resolveCall.param.importer.value)

\* C3: for a source P + ".farm-runtime" (caller tag not this plugin's) where
\* the generic resolver resolves P to R, resolve hands exactly P to the
\* generic resolver and returns the resolved path R + ".farm-runtime", also
\* when P contains ".farm-runtime" before its end.
C3_SuffixRoundTrip ==
  LET param == resolveCall.param
      real == [param EXCEPT !.source = RealPath(param.source)]
      R == GenericResolve(real)
  IN (/\ resolveCall.called
      /\ resolveCall.caller # Some(PluginName)
      /\ Suffixed(param.source)
      /\ R.kind = "Some")
       => /\ resolveCall.delegated = <<real>>
          /\ resolveCall.ret =
               Some([R.value EXCEPT !.resolved_path = @ \o RUNTIME_SUFFIX])

\* C10: when a qualifying request (suffixed source, or suffixed importer)
\* with a caller tag other than this plugin's gets a result, the resolved
\* path ends with ".farm-runtime".
C10_ResolvedIdCarriesSuffix ==
  (/\ resolveCall.called
   /\ resolveCall.caller # Some(PluginName)
   /\ Qualifies(resolveCall.param)
   /\ resolveCall.ret.kind = "Some")
    => Suffixed(resolveCall.ret.value.resolved_path)

C10_Witness ==
  /\ resolveCall.called
  /\ resolveCall.caller # Some(PluginName)
  /\ ~Suffixed(resolveCall.param.source)
  /\ resolveCall.param.importer # None
  /\ Suffixed(resolveCall.param.importer.value)
  /\ resolveCall.ret.kind = "Some"
  /\ Suffixed(resolveCall.ret.value.resolved_path)

(***************************************************************************)
(* Properties of analyze_deps (checked under SpecDeps).                    *)
(***************************************************************************)
SuffixedScript == Suffixed(module.id) /\ module.meta = "Script"

\* the number of entries of deps with the given source
Count(source, deps) == Cardinality({ i \in 1..Len(deps) : deps[i].source = source })

NoHelperIn(deps) == \A h \in Helpers : Count(h, deps) = 0

\* C4: on a suffixed script module a second run of analyze_deps leaves the
\* list the first run produced unchanged, and the runs together add at most
\* one entry for each of the three helper sources.
C4_DependencyIdempotence ==
  SuffixedScript =>
    /\ \A i \in 1..Len(depsHist) : depsHist[i] = depsHist[1]
    /\ \A h \in Helpers : Count(h, module.deps) - Count(h, deps0) <= 1

C4_Witness ==
  /\ SuffixedScript
  /\ Len(depsHist) >= 2
  /\ depsHist[1] # deps0
  /\ depsHist[2] = depsHist[1]

HasNamespaceImport(body) ==
  \E i \in 1..Len(body) : body[i].stmt = "Import" /\ HasSpecifier(body[i], "Namespace")

HasDefaultImport(body) ==
  \E i \in 1..Len(body) : body[i].stmt = "Import" /\ HasSpecifier(body[i], "Default")

HasExportAll(body) == \E i \in 1..Len(body) : body[i].stmt = "ExportAll"

\* C5: after analyze_deps on a suffixed script module in which some import
\* statement has a namespace specifier, the dependency list has an entry
\* for the wildcard helper, whatever statements follow that import.
C5_NamespaceImportPullsWildcard ==
  (SuffixedScript /\ Len(depsHist) >= 1 /\ HasNamespaceImport(module.body))
    => Count(WILDCARD_HELPER, module.deps) >= 1

OnlyDefaultImports(body) ==
  /\ Len(body) >= 1
  /\ \A i \in 1..Len(body) :
       /\ body[i].stmt = "Import"
       /\ Len(body[i].specifiers) >= 1
       /\ \A j \in 1..Len(body[i].specifiers) : body[i].specifiers[j] = "Default"

OnlyExportAll(body) ==
  /\ Len(body) >= 1
  /\ \A i \in 1..Len(body) : body[i].stmt = "ExportAll"

NoneOfTheThree(body) ==
  ~HasNamespaceImport(body) /\ ~HasDefaultImport(body) /\ ~HasExportAll(body)

\* C6: from a list without helper entries, analyze_deps on a suffixed script
\* module of default imports only appends the default-interop helper and
\* nothing else, of export-all statements only appends the export-star
\* helper and nothing else, and with no namespace import, default import or
\* export-all appends nothing.
C6_HelperSelection ==
  (SuffixedScript /\ Len(depsHist) >= 1 /\ NoHelperIn(deps0)) =>
    /\ OnlyDefaultImports(module.body)
         => depsHist[1] = Append(deps0, Dep("Import", DEFAULT_HELPER))
    /\ OnlyExportAll(module.body)
         => depsHist[1] = Append(deps0, Dep("Import", EXPORT_STAR_HELPER))
    /\ NoneOfTheThree(module.body) => depsHist[1] = deps0

C6_Witness ==
  /\ SuffixedScript
  /\ Len(depsHist) >= 1
  /\ NoHelperIn(deps0)
  /\ OnlyDefaultImports(module.body)
  /\ Len(module.body) >= 2
  /\ depsHist[1] = Append(deps0, Dep("Import", DEFAULT_HELPER))

(***************************************************************************)
(* Properties of the resource-pot hooks (checked under Spec).              *)
(***************************************************************************)
PotById(id) == CHOOSE p \in AllPots : p.id = id

\* exactly one Runtime pot exists in the compilation
OneRuntimePot == Cardinality({ p \in pots : p.resource_pot_type = "Runtime" }) = 1

\* C1: with one Runtime pot and the cache empty at the start, the concurrent
\* process_resource_pots calls of one instance invoke
\* resource_pot_to_runtime_object at most once (stated for the runs in which
\* no invocation fails).
C1_RenderAtMostOnce ==
  (OneRuntimePot /\ \A i \in 1..Len(renderLog) : renderLog[i].ok)
    => Len(renderLog) <= 1

GeneratedForRuntimePot ==
  /\ generated.called
  /\ PotById(generated.pot).resource_pot_type = "Runtime"
  /\ generated.caller # Some(PluginName)

\* C8 as claimed: generate_resources on a Runtime pot, the caller tag not
\* this plugin's name, gives one Resource whose emit flag is false and whose
\* kind is Runtime.
C8_EmitFlagFalse ==
  GeneratedForRuntimePot =>
    /\ generated.ret.kind = "Some"
    /\ generated.ret.value.resource.emitted = FALSE
    /\ generated.ret.value.resource.resource_type = "Runtime"

\* C8 as amended: generate_resources on a Runtime pot, the caller tag not
\* this plugin's name, gives one Resource whose `emitted` flag is true (the
\* resource counts as emitted already, so it is not written by default) and
\* whose kind is Runtime.
C8_EmittedTrue ==
  GeneratedForRuntimePot =>
    /\ generated.ret.kind = "Some"
    /\ generated.ret.value.resource.emitted = TRUE
    /\ generated.ret.value.resource.resource_type = "Runtime"
    /\ generated.ret.value.resource.name = generated.pot

C8_Witness ==
  /\ GeneratedForRuntimePot
  /\ generated.caller = Some("FarmPluginResolve")
  /\ generated.ret.kind = "Some"
  /\ generated.ret.value.resource.bytes # <<>>

\* C9: when process_resource_pots has returned for a Runtime pot,
\* render_resource_pot_modules was then called on it and its result stored
\* in the pot's meta, the Resource generate_resources then gives for the pot
\* has the bytes of runtime_code as it is at that call, whatever the other
\* threads' hook calls did in between.
C9_PayloadIsCachedBundle ==
  (GeneratedForRuntimePot /\ generated.inOrder) =>
    /\ generated.ret.kind = "Some"
    /\ generated.ret.value.resource.bytes = AsBytes(generated.cache)

\* the same, in a compilation that has exactly one Runtime pot: there every
\* store to runtime_code writes the same text
C9_WithOneRuntimePot == OneRuntimePot => C9_PayloadIsCachedBundle

(***************************************************************************)
(* Properties of the emitted wrappers (checked under SpecBundle).          *)
(***************************************************************************)
\* C7: evaluating the bootstrap wrapper, the wrapper itself invokes the
\* entry module's factory, once, and nothing else; every other factory
\* invocation is made by require called from a factory that is running.
\* Evaluating the registration wrapper invokes no factory, and when it is
\* over register has been called once for every member key.
C7_BundleShape ==
  /\ js.mode = "bootstrap" =>
       /\ \A i \in 1..Len(js.invoked) :
            IF js.invoked[i].by = "wrapper"
            THEN i = 1 /\ js.invoked[i].id = BundleEntry(js.text)
            ELSE js.invoked[i].by \in js.invoked[i].running
       /\ js.status = "done" =>
            /\ Len(js.invoked) >= 1
            /\ js.invoked[1] = [id |-> BundleEntry(js.text), by |-> "wrapper", running |-> {}]
       /\ (js.status = "done" /\ js.body[BundleEntry(js.text)] = <<>>) =>
            Len(js.invoked) = 1
  /\ js.mode = "registration" =>
       /\ js.invoked = <<>>
       /\ js.status = "done" => js.registered = BundleModules(js.text)

C7_Witness ==
  /\ js.mode = "bootstrap"
  /\ js.status = "done"
  /\ Len(js.invoked) = 3
  /\ js.invoked[1].id = BundleEntry(js.text)
  /\ js.cache = Keys(js.text)

C7_WitnessRegistration ==
  /\ js.mode = "registration"
  /\ js.status = "done"
  /\ Len(js.registered) = 2

(***************************************************************************)
(* Properties across the hooks (checked under SpecHooks).                  *)
(***************************************************************************)
\* the step leaves the dependency list and the module record of the modules
\* at hand, and the bootstrap cache, as they were
FrameKept ==
  /\ module' = module
  /\ finalizeCall'.param = finalizeCall.param
  /\ runtime_code' = runtime_code

\* thread t's call of render_resource_pot_modules returns in this step
RenderReturns(t) ==
  /\ pc[t] \in {"rrpm_lock", "rrpm_read", "rrpm_read_lock", "rrpm_render", "rrpm_other"}
  /\ pc'[t] = "idle"

\* generate_resources is called in this step
GenerateStep == generated'.called /\ generated' # generated

C11_Step ==
  /\ (~resolveCall.called /\ resolveCall'.called /\ ~Qualifies(resolveCall.param))
       => (resolveCall'.ret = None /\ FrameKept)
  /\ (~loadCall.called /\ loadCall'.called /\ ~Suffixed(loadCall.param.resolved_path))
       => (loadCall'.ret = None /\ FrameKept)
  /\ (/\ Len(depsHist') = Len(depsHist) + 1
      /\ (~Suffixed(module.id) \/ module.meta # "Script"))
       => (analyzeRet' = None /\ FrameKept)
  /\ (/\ ~finalizeCall.called
      /\ finalizeCall'.called
      /\ ~Suffixed(finalizeCall.param.module.id))
       => (finalizeCall'.ret = None /\ FrameKept)
  /\ \A t \in Procs :
       (RenderReturns(t) /\ arg[t][1].resource_pot_type \notin {"Runtime", "Js"})
         => (lastReturn'.ret = None /\ FrameKept /\ potMeta' = potMeta)
  /\ (/\ GenerateStep
      /\ \/ PotById(generated'.pot).resource_pot_type # "Runtime"
         \/ generated'.caller = Some(PluginName))
       => (generated'.ret = None /\ FrameKept)

\* C11: a hook called on an input it does not apply to (resolve on a
\* non-qualifying request, load on a non-suffixed id, analyze_deps on a
\* non-suffixed module or a suffixed non-script module, finalize_module on a
\* non-suffixed module, render_resource_pot_modules on a pot neither Runtime
\* nor Js, generate_resources on a non-Runtime pot or with the caller tag of
\* this plugin) returns None and leaves the dependency list, the module
\* record and the bootstrap cache unchanged.
C11_NotApplicableNotHandled == [][C11_Step]_vars

\* a pot that is neither Runtime nor Js was given to
\* render_resource_pot_modules while the cache was filled
C11_Witness ==
  /\ pipelineStage = "resource_pots"
  /\ lastReturn.hook = "render_resource_pot_modules"
  /\ lastReturn.ret = None
  /\ runtime_code # <<>>
  /\ \A t \in Procs : pc[t] = "idle"

\* finalize_module was called on a non-suffixed module with dependencies
C11_WitnessFinalize ==
  /\ finalizeCall.called
  /\ ~Suffixed(finalizeCall.param.module.id)
  /\ finalizeCall.param.deps # <<>>
  /\ finalizeCall.param = finalizeCall.before

(***************************************************************************)
(* Properties of load (checked under SpecLoad).                            *)
(***************************************************************************)
\* C12: load on a suffixed id, the content of the real path (the id with
\* RUNTIME_SUFFIX removed, as load derives it) read successfully and no
\* module type inferred from that path, panics: it returns neither None,
\* nor a load result, nor an error value.
C12_UnknownTypeAborts ==
  LET real == RealFilePath(loadCall.param.resolved_path)
  IN (/\ loadCall.called
      /\ Suffixed(loadCall.param.resolved_path)
      /\ ReadFileUtf8(real, loadCall.fs).kind = "Ok"
      /\ ModuleTypeFromId(real) = None)
       => /\ loadCall.ret.kind = "Panic"
          /\ loadCall.ret.kind \notin {"None", "Some", "Err"}

C12_Witness ==
  /\ loadCall.called
  /\ loadCall.param.resolved_path = <<"a">> \o <<".", "f", "a", "r", "m">> \o RUNTIME_SUFFIX
  /\ loadCall.reads = << <<"a">> \o <<".", "f", "a", "r", "m">> >>
  /\ loadCall.infers = loadCall.reads
  /\ loadCall.ret.kind = "Panic"

(***************************************************************************)
(* Properties of the bootstrap cache (checked under Spec).                 *)
(***************************************************************************)
\* the steps of a process_resource_pots call that began with the cache filled
C13_Step ==
  \A t \in Procs :
    late[t] =>
      /\ pc'[t] \in {"prp_lock", "prp_check", "idle"}
      /\ pc'[t] # pc[t] =>
           /\ renderLog' = renderLog
           /\ runtime_code' = runtime_code
           /\ cacheWrites' = cacheWrites
      /\ pc'[t] = "idle" => lastReturn'.ret = None

\* C13: a process_resource_pots call that begins once the cache is non-empty
\* is a no-op, whatever its list of pots: it returns (Ok(None)) without
\* calling resource_pot_to_runtime_object and does not write the cache.
C13_LaterCallsAreNoOps == [][C13_Step]_vars

C13_Witness ==
  /\ lastReturn.hook = "process_resource_pots"
  /\ lastReturn.late
  /\ lastReturn.ret = None
  /\ Len(renderLog) = 1
  /\ cacheWrites = 1
  /\ runtime_code = BootstrapBundle(RuntimePot)

\* such a call under way on a list whose Runtime pot is not the one rendered
C13_WitnessOtherPot ==
  \E t \in Procs :
    /\ late[t]
    /\ pc[t] = "prp_check"
    /\ FirstRuntime(arg[t]) # 0
    /\ BootstrapBundle(arg[t][FirstRuntime(arg[t])]) # runtime_code

\* C14: whatever the interleaving of the process_resource_pots and
\* render_resource_pot_modules calls on one instance, runtime_code is
\* assigned at most once, keeps its value from the first state in which it
\* is non-empty, and so a value render_resource_pot_modules returned for a
\* Runtime pot is the cache's value ever after.
C14_WriteOnceCache ==
  [][/\ cacheWrites' <= 1
     /\ runtime_code # <<>> => runtime_code' = runtime_code
     /\ \A id \in RuntimePotIds : potMeta'[id] \in {<<>>, runtime_code'}]_vars

\* resource_pot_to_runtime_object fails in this step
RenderFails ==
  /\ Len(renderLog') = Len(renderLog) + 1
  /\ ~renderLog'[Len(renderLog')].ok

\* the texts process_resource_pots stores: whole bootstrap bundles
WholeBundles ==
  { BootstrapBundle(p) : p \in { q \in AllPots : q.resource_pot_type = "Runtime" } }

\* the call in which the render primitive failed returns its error in the
\* same step, not having stored anything
FailedRenderStoresNothing ==
  RenderFails =>
    /\ \E t \in Procs : pc[t] = "prp_loop" /\ pc'[t] = "idle"
    /\ lastReturn' = [hook |-> "process_resource_pots",
                      ret |-> Err("RenderError"), late |-> FALSE]
    /\ runtime_code' = runtime_code
    /\ cacheWrites' = cacheWrites

\* C15: when resource_pot_to_runtime_object fails in process_resource_pots,
\* the call returns that error without another attempt and the cache is
\* left as it was, which is empty; the cache never holds anything but a
\* whole wrapped bundle.
C15_FailedRenderLeavesCacheEmpty ==
  [][/\ FailedRenderStoresNothing
     /\ RenderFails => runtime_code' = <<>>
     /\ runtime_code' \in {<<>>} \cup WholeBundles]_vars

\* the same without the cache being empty
C15_FailedRenderLeavesCache ==
  [][/\ FailedRenderStoresNothing
     /\ runtime_code' \in {<<>>} \cup WholeBundles]_vars

(***************************************************************************)
(* Properties of the delegating hooks (checked under SpecHooks).           *)
(***************************************************************************)
\* C16: a qualifying resolve request (caller tag not this plugin's) calls
\* the resolver it delegates to exactly once and returns that resolver's
\* error as the same error and its None as None; load on a suffixed id calls
\* the content provider exactly once and returns its failure as the same
\* error, no type inference having been attempted.
C16_DelegateOutcomesPropagate ==
  /\ (/\ resolveCall.called
      /\ resolveCall.caller # Some(PluginName)
      /\ Qualifies(resolveCall.param))
       => /\ Len(resolveCall.delegated) = 1
          /\ LET out == GenericResolve(resolveCall.delegated[1])
             IN /\ out.kind = "Err" => resolveCall.ret = out
                /\ out.kind = "None" => resolveCall.ret = None
  /\ (loadCall.called /\ Suffixed(loadCall.param.resolved_path))
       => /\ Len(loadCall.reads) = 1
          /\ LET content == ReadFileUtf8(loadCall.reads[1], loadCall.fs)
             IN content.kind = "Err" =>
                  (loadCall.ret = content /\ loadCall.infers = <<>>)

C16_Witness ==
  /\ resolveCall.called
  /\ resolveCall.param.source = RUNTIME_SUFFIX
  /\ Len(resolveCall.delegated) = 1
  /\ resolveCall.ret = Err("ResolveError")

\* the content provider failed on a path no type can be inferred from
C16_WitnessLoad ==
  /\ loadCall.called
  /\ loadCall.ret = Err("IoError")
  /\ Len(loadCall.reads) = 1
  /\ ModuleTypeFromId(loadCall.reads[1]) = None

(***************************************************************************)
(* Termination of resolve (checked under SpecResolve).                     *)
(***************************************************************************)
\* C17: the resolver delegated to re-entering every participant with the
\* caller tag it was given, one resolve request enters this plugin's resolve
\* at most twice (the call and one inner call that returns at once) and
\* delegates at most once: the recursion ends.
C17_ResolveTerminates ==
  resolveCall.called =>
    /\ resolveCall.entries <= 2
    /\ Len(resolveCall.delegated) <= 1
    /\ resolveCall.ret.kind # "StackOverflow"

\* the request delegated still qualifies, by its importer
C17_Witness ==
  /\ resolveCall.called
  /\ resolveCall.caller # Some(PluginName)
  /\ Len(resolveCall.delegated) = 1
  /\ Qualifies(resolveCall.delegated[1])
  /\ resolveCall.entries = 2
  /\ resolveCall.ret.kind = "Some"

(***************************************************************************)
(* Wildcard detection of analyze_deps (checked under SpecDeps).            *)
(***************************************************************************)
\* C18: analyze_deps adds the wildcard helper only to a module in which
\* some import statement has a namespace specifier: on a suffixed script
\* module without such an import the list gets no wildcard entry, wherever
\* its export-all statements stand.
C18_StrictWildcardDetection ==
  (SuffixedScript /\ Len(depsHist) >= 1 /\ ~HasNamespaceImport(module.body))
    => Count(WILDCARD_HELPER, module.deps) = Count(WILDCARD_HELPER, deps0)

(***************************************************************************)
(* The bootstrap loader on any require graph (checked under SpecBundle).   *)
(***************************************************************************)
\* C19: evaluating the bootstrap bundle, whatever requires the factories
\* make of each other (cycles included), no factory is invoked twice and
\* require(entryModule) returns: the nesting of calls never exhausts the
\* stack.
C19_FactoriesRunOnce ==
  js.mode = "bootstrap" =>
    /\ \A i, j \in 1..Len(js.invoked) :
         i # j => js.invoked[i].id # js.invoked[j].id
    /\ js.status # "RangeError"

(***************************************************************************)
(* Locking of the resource-pot hooks (checked under SpecFair).             *)
(***************************************************************************)
\* thread t waits for a lock another thread holds
Blocked(t) ==
  \/ pc[t] \in {"prp_lock", "prp_store_lock", "rrpm_lock"} /\ mutex # 0
  \/ pc[t] = "prp_write_lock" /\ (graphWriter # 0 \/ graphReaders # {})
  \/ pc[t] = "rrpm_read_lock" /\ graphWriter # 0

\* some call is unfinished and every unfinished call is blocked
Deadlocked ==
  /\ \E t \in Procs : pc[t] # "idle"
  /\ \A t \in Procs : pc[t] # "idle" => Blocked(t)

\* C20: the concurrent process_resource_pots calls (cache mutex, then the
\* module graph's write lock, then the cache mutex again) and
\* render_resource_pot_modules calls (cache mutex, or the module graph's
\* read lock) never all wait for a lock at once, and every call returns.
C20_DeadlockFree ==
  /\ []~Deadlocked
  /\ \A t \in Procs : (pc[t] # "idle") ~> (pc[t] = "idle")

\* the safety half, for the pipelines of Spec
NeverDeadlocked == ~Deadlocked

\* a call holding the write lock waits for the mutex a render call holds
C20_Witness ==
  \E t, u \in Procs :
    /\ t # u
    /\ pc[t] = "prp_store_lock"
    /\ graphWriter = t
    /\ mutex = u
    /\ pc[u] = "rrpm_read"

====
